---- MODULE Spec2Model ----
(***************************************************************************)
(* State-machine model of the notebook sagemaker-churn-lab-archived.ipynb. *)
(* The client is the notebook kernel running the code cells top to bottom; *)
(* the environment is the remote service (object storage, AutoML job       *)
(* control, model hosting).  A remote call is two steps: the client issues *)
(* it (the call is in flight and the client blocks), then the service      *)
(* answers it or the call raises.  Text values are sequences of tokens, so *)
(* that formatting and concatenation are computed and not assumed.         *)
(***************************************************************************)
EXTENDS Integers, Sequences, FiniteSets, TLC

\* ------------------------------------------------------------- bounds
\* Largest number of rows of churn.txt that is enumerated.
MaxRows == 5
\* Number of distinct values strftime('%d-%H-%M-%S', gmtime()) can return.
MaxClock == 2
\* History counters saturate at this value (the program itself has no cap).
MaxCount == 3
\* Largest number of rows of churn.txt when the evaluation cells are examined
\* from the state in which the kernel reaches them.
MaxEvalRows == 10
\* Longest bucket name and longest key, in characters, given to split_s3_path
\* when it is examined on its own.
MaxBucketLen == 3
MaxKeyLen == 2

\* ------------------------------------------------- program constants
\* 'MaxCandidates': 20 of the create-job payload.
MaxCandidates == 20
\* 'InitialInstanceCount': 1 of the endpoint configuration.
InitialInstanceCount == 1

\* The tuple of the while condition: these statuses end the polling loop.
Terminal == {"Failed", "Completed", "Stopped"}

\* The target attribute.
Target == "Churn?"

\* Columns of the dataset (a sample of the 21 attributes, with the target).
Columns == {"State", "CustServ Calls", Target}

\* prefix = 'sagemaker/DEMO-xgboost-churn'
prefix == <<"sagemaker", "/", "DEMO-xgboost-churn">>

\* Bucket names of the account, as token sequences.
BucketNames ==
  { <<"sagemaker-lab", "-1">>, <<"sagemaker-lab", "-2">>, <<"sagemaker", "-us-west-2">> }

\* The answers list_buckets can give: the account's buckets in some order.
BucketLists ==
  { <<>> } \cup { <<a>> : a \in BucketNames }
           \cup { l \in { <<a, b>> : a \in BucketNames, b \in BucketNames } : l[1] # l[2] }

\* str.startswith
StartsWith(s, p) == Len(s) >= Len(p) /\ SubSeq(s, 1, Len(p)) = p

\* [bucket['Name'] for bucket in response['Buckets']
\*    if bucket['Name'].startswith('sagemaker-lab')]
LabBuckets(list) ==
  LET F[i \in 0..Len(list)] ==
        IF i = 0 THEN <<>>
        ELSE IF StartsWith(list[i], <<"sagemaker-lab">>)
             THEN Append(F[i-1], list[i]) ELSE F[i-1]
  IN F[Len(list)]

\* Names the kernel may hold from cells that are not in the notebook.
KernelNames == {"session", "sm"}

\* A Python variable that has not been assigned.
Unset == [unset |-> TRUE]

\* ------------------------------------------------------------ pandas
\* pd.read_csv: a frame with a RangeIndex 0..n-1.
ReadCsv(n) == [rows |-> 0..(n-1), columns |-> Columns]

\* Python's round(): half to even, of the rational num/den.
RoundHalfEven(num, den) ==
  LET q == num \div den
      r == num % den
  IN IF 2*r < den THEN q
     ELSE IF 2*r > den THEN q + 1
     ELSE IF q % 2 = 0 THEN q ELSE q + 1

\* Number of rows DataFrame.sample(frac=0.8) draws from n rows.
SampleSize(n) == RoundHalfEven(8*n, 10)

\* The frames DataFrame.sample(frac=0.8, random_state=200) can return.
Sample(df) ==
  { [rows |-> S, columns |-> df.columns] :
      S \in { T \in SUBSET df.rows : Cardinality(T) = SampleSize(Cardinality(df.rows)) } }

\* DataFrame.drop(index): the rows whose label is not in index.
DropIndex(df, index) ==
  [rows |-> { r \in df.rows : r \notin index }, columns |-> df.columns]

\* DataFrame.drop(columns=[c])
DropColumns(df, c) == [rows |-> df.rows, columns |-> df.columns \ {c}]

\* DataFrame.to_csv(file, index=False, header=h): the file written.
ToCsv(df, h) == [header |-> h, columns |-> df.columns, rows |-> df.rows]

\* The values of the target column: 'True.' (the pos_label of the metrics
\* cell) and 'False.'.
Labels == {"True.", "False."}

\* The value of 'Churn?' in the row of churn.txt with index label r.
TargetOf(r) == IF r % 2 = 1 THEN "True." ELSE "False."

\* The index labels of a frame in the frame's row order: read_csv numbers the
\* rows in ascending order and drop() keeps the order of the rows it keeps.
RowOrder(df) ==
  LET F[T \in SUBSET df.rows] ==
        IF T = {} THEN <<>>
        ELSE LET m == CHOOSE x \in T : \A y \in T : x <= y
             IN <<m>> \o F[T \ {m}]
  IN F[df.rows]

\* DataFrame.to_csv(sep=',', header=h, index=False) without a path: the text,
\* a header line if asked for, then one line per row in row order.
CsvText(df, h) ==
  (IF h THEN << [kind |-> "header", row |-> -1, columns |-> df.columns] >>
   ELSE <<>>)
  \o [i \in 1..Cardinality(df.rows) |->
        [kind |-> "row", row |-> RowOrder(df)[i], columns |-> df.columns]]

\* A value of a frame with its type.
Cell(type, v) == [type |-> type, v |-> v]

\* df.reset_index()[column] for the target column: the values in row order,
\* renumbered from the first row.
ResetIndexTarget(df) ==
  [i \in 1..Cardinality(df.rows) |-> Cell("str", TargetOf(RowOrder(df)[i]))]

\* ------------------------------------------------------------- text
\* The text 's3://', character by character.
Scheme == <<"s", "3", ":", "/", "/">>

\* 's3://{}/{}/<leaf>'.format(bucket, prefix)
S3Uri(b, p, leaf) == Scheme \o b \o <<"/">> \o p \o <<"/">> \o <<leaf>>

\* key_prefix + '/' + file name: the key upload_data writes.
S3Key(key_prefix, file) == key_prefix \o <<"/">> \o <<file>>

\* base + timestamp_suffix + suffix
Name(base, ts, suffix) == [base |-> base, ts |-> ts, suffix |-> suffix]

\* strftime('%d-%H-%M-%S', gmtime()): some reading of the clock.
Timestamps == 1..MaxClock

\* Saturating increment of a history counter.
Inc(n) == IF n < MaxCount THEN n + 1 ELSE n

VARIABLES
  pc,                  \* the statement the kernel is at
  bound,               \* names bound in the kernel besides the notebook's own
  fault,               \* the unhandled exception that stopped the run, or Unset
  bucket,              \* setup cell
  churn, train_data, test_data, test_data_no_target,
  files,               \* local files written by to_csv
  input_data_config, output_data_config,
  timestamp_suffix, auto_ml_job_name, describe_response, job_run_status,
  candidate_nbk, data_explore_nbk,
  s3_bucket, candidate_nbk_key, data_explore_nbk_key,
  best_candidate, model_name, epc_name, ep_name,
  prediction,          \* the answer of the endpoint, as the predictor returns it
  sdk_version,         \* sagemaker.__version__ as the evaluation cell read it
  predictor, test_data_inference, prediction_df,
  accuracy, precision, recall, f1,
  inflight,            \* remote calls issued and not yet answered
  defaultBucket,       \* the upload session's default bucket
  s3,                  \* remote: objects in storage
  job,                 \* remote: the AutoML job, or Unset
  models, epcs, eps,   \* remote: hosting resources by name
  calls,               \* history: number of calls issued, by API
  sleepsSinceQuery,    \* history: sleeps since the last polling query
  bodyRuns,            \* history: runs of the loop body
  lastOutcome          \* history: outcome of the last answered call

clientVars ==
  <<pc, fault, bucket, churn, train_data, test_data, test_data_no_target, files,
    input_data_config, output_data_config, timestamp_suffix, auto_ml_job_name,
    describe_response, job_run_status, candidate_nbk, data_explore_nbk,
    s3_bucket, candidate_nbk_key, data_explore_nbk_key,
    best_candidate, model_name, epc_name, ep_name, prediction,
    sdk_version, predictor, test_data_inference, prediction_df,
    accuracy, precision, recall, f1>>
envVars == <<bound, defaultBucket>>
dataVars == <<churn, train_data, test_data, test_data_no_target, files>>
jobVars == <<input_data_config, output_data_config, auto_ml_job_name,
             describe_response, job_run_status>>
nbkVars == <<candidate_nbk, data_explore_nbk, s3_bucket, candidate_nbk_key,
             data_explore_nbk_key>>
evalVars == <<sdk_version, predictor, test_data_inference, prediction_df,
              accuracy, precision, recall, f1>>
hostVars == <<timestamp_suffix, best_candidate, model_name, epc_name, ep_name,
              prediction, evalVars>>
remoteVars == <<s3, job, models, epcs, eps>>
histVars == <<sleepsSinceQuery, bodyRuns>>
vars ==
  <<pc, bound, fault, bucket, churn, train_data, test_data, test_data_no_target,
    files, input_data_config, output_data_config, timestamp_suffix,
    auto_ml_job_name, describe_response, job_run_status, candidate_nbk,
    data_explore_nbk, s3_bucket, candidate_nbk_key, data_explore_nbk_key,
    best_candidate, model_name, epc_name, ep_name, prediction,
    sdk_version, predictor, test_data_inference, prediction_df,
    accuracy, precision, recall, f1, inflight,
    defaultBucket, s3, job, models, epcs, eps,
    calls, sleepsSinceQuery, bodyRuns, lastOutcome>>

\* The remote APIs the notebook names.
Apis ==
  { "list_buckets", "upload_data", "create_auto_ml_job", "describe_auto_ml_job",
    "download_data", "list_candidates_for_auto_ml_job", "create_model",
    "create_endpoint_config", "create_endpoint", "wait", "predict" }

Init ==
  /\ pc = "setup"
  /\ bound \in SUBSET KernelNames
  /\ fault = Unset
  /\ bucket = <<>>
  /\ churn = Unset /\ train_data = Unset /\ test_data = Unset
  /\ test_data_no_target = Unset
  /\ files = [f \in {"train_data.csv", "test_data.csv"} |-> Unset]
  /\ input_data_config = Unset /\ output_data_config = Unset
  /\ timestamp_suffix = 0
  /\ auto_ml_job_name = Unset /\ describe_response = Unset
  /\ job_run_status = "unset"
  /\ candidate_nbk = <<>> /\ data_explore_nbk = <<>>
  /\ s3_bucket = <<>> /\ candidate_nbk_key = <<>> /\ data_explore_nbk_key = <<>>
  /\ best_candidate = Unset /\ model_name = Unset /\ epc_name = Unset
  /\ ep_name = Unset /\ prediction = Unset
  /\ sdk_version = <<>> /\ predictor = Unset /\ test_data_inference = Unset
  /\ prediction_df = Unset
  /\ accuracy = Unset /\ precision = Unset /\ recall = Unset /\ f1 = Unset
  /\ inflight = {}
  /\ defaultBucket \in BucketNames
  /\ s3 = {}
  /\ job = Unset
  /\ models = {} /\ epcs = {} /\ eps = {}
  /\ calls = [a \in Apis |-> 0]
  /\ sleepsSinceQuery = 0
  /\ bodyRuns = 0
  /\ lastOutcome = "none"

\* ------------------------------------------------- the call protocol
\* A remote call: the API, the statement that makes it, and its arguments.
Call(api, site, arg) == [api |-> api, site |-> site, arg |-> arg]

\* The client issues a remote call and blocks at pc `at` until it is answered.
Issue(call, at) ==
  /\ inflight' = inflight \cup {call}
  /\ calls' = [calls EXCEPT ![call.api] = Inc(@)]
  /\ pc' = at
  /\ UNCHANGED <<fault, lastOutcome>>

\* The call the client is blocked on is answered; the client goes on at `to`.
Answered(call, to) ==
  /\ inflight' = inflight \ {call}
  /\ lastOutcome' = "ok"
  /\ pc' = to
  /\ UNCHANGED <<fault, calls>>

\* A statement that makes no remote call; the client goes on at `to`.
Local(to) ==
  /\ pc' = to
  /\ UNCHANGED <<fault, inflight, calls, lastOutcome>>

\* An exception no cell catches: the run stops at the statement.
Raise(kind, at) ==
  /\ fault' = [kind |-> kind, at |-> at]
  /\ pc' = "fault"

\* Names a statement reads that the notebook itself never assigns.
Reads(at) ==
  CASE at \in {"upload_train", "upload_test", "download_candidate",
               "download_explore", "predict"} -> {"session"}
    [] at \in {"create_job", "poll_init", "loop_query", "best_candidate",
               "list_candidates", "create_model", "create_endpoint_config",
               "create_endpoint", "wait"} -> {"sm"}
    [] OTHER -> {}

\* The kernel is at statement `at` and every name the statement reads is bound.
CanRun(at) == pc = at /\ Reads(at) \subseteq bound

\* The calls of API `api` the client is blocked on at pc `at`.
Pending(api, at) == { c \in inflight : c.api = api /\ pc = at }

\* ------------------------------------------------ setup and data cells
\* Setup cell: s3_client.list_buckets().
Setup ==
  /\ CanRun("setup")
  /\ Issue(Call("list_buckets", "setup", [none |-> TRUE]), "setup_wait")
  /\ UNCHANGED <<envVars, bucket, dataVars, jobVars, nbkVars, hostVars,
                 remoteVars, histVars>>

\* Setup cell: bucket = [... if name.startswith('sagemaker-lab')][0]
SetupReturn ==
  \E c \in Pending("list_buckets", "setup_wait"), list \in BucketLists :
    /\ inflight' = inflight \ {c}
    /\ lastOutcome' = "ok"
    /\ IF LabBuckets(list) = <<>>
       THEN Raise("IndexError", "setup") /\ UNCHANGED bucket
       ELSE pc' = "read_csv" /\ bucket' = LabBuckets(list)[1] /\ UNCHANGED fault
    /\ UNCHANGED <<envVars, calls, dataVars, jobVars, nbkVars, hostVars,
                   remoteVars, histVars>>

\* churn = pd.read_csv('./churn.txt')
LoadData ==
  /\ CanRun("read_csv")
  /\ \E n \in 1..MaxRows : churn' = ReadCsv(n)
  /\ Local("split")
  /\ UNCHANGED <<envVars, bucket, train_data, test_data, test_data_no_target,
                 files, jobVars, nbkVars, hostVars, remoteVars, histVars>>

\* train_data = churn.sample(...); test_data = churn.drop(train_data.index);
\* test_data_no_target = test_data.drop(columns=['Churn?'])
Split ==
  /\ CanRun("split")
  /\ \E tr \in Sample(churn) :
       /\ train_data' = tr
       /\ test_data' = DropIndex(churn, tr.rows)
       /\ test_data_no_target' = DropColumns(DropIndex(churn, tr.rows), Target)
  /\ Local("write_train")
  /\ UNCHANGED <<envVars, bucket, churn, files, jobVars, nbkVars, hostVars,
                 remoteVars, histVars>>

\* Mutant: the test file is written from the frame that still has the target.
CsvOfWithTarget(file) ==
  IF file = "train_data.csv" THEN ToCsv(train_data, TRUE)
  ELSE ToCsv(test_data, FALSE)

\* The frame and the header flag of each to_csv call.
CsvOf(file) ==
  IF file = "train_data.csv" THEN ToCsv(train_data, TRUE)
  ELSE ToCsv(test_data_no_target, FALSE)

\* key_prefix of each upload: prefix + "/train", prefix + "/test".
KeyPrefixOf(file) ==
  IF file = "train_data.csv" THEN prefix \o <<"/", "train">>
  ELSE prefix \o <<"/", "test">>

\* train_data.to_csv(train_file, ...) and test_data_no_target.to_csv(test_file, ...)
WriteCsv(file, at, to) ==
  /\ CanRun(at)
  /\ files' = [files EXCEPT ![file] = CsvOf(file)]
  /\ Local(to)
  /\ UNCHANGED <<envVars, bucket, churn, train_data, test_data,
                 test_data_no_target, jobVars, nbkVars, hostVars, remoteVars,
                 histVars>>

\* session.upload_data(path=file, key_prefix=...)
UploadData(file, at, blocked) ==
  /\ CanRun(at)
  /\ Issue(Call("upload_data", at,
                [path |-> file, key_prefix |-> KeyPrefixOf(file),
                 body |-> files[file]]), blocked)
  /\ UNCHANGED <<envVars, bucket, dataVars, jobVars, nbkVars, hostVars,
                 remoteVars, histVars>>

\* The upload is stored in the session's default bucket under key_prefix/file.
UploadReturn(at, to) ==
  \E c \in Pending("upload_data", at) :
    /\ Answered(c, to)
    /\ s3' = { o \in s3 : ~(o.bucket = defaultBucket
                            /\ o.key = S3Key(c.arg.key_prefix, c.arg.path)) }
             \cup { [bucket |-> defaultBucket,
                     key |-> S3Key(c.arg.key_prefix, c.arg.path),
                     body |-> c.arg.body] }
    /\ UNCHANGED <<envVars, bucket, dataVars, jobVars, nbkVars, hostVars,
                   job, models, epcs, eps, histVars>>

WriteTrain == WriteCsv("train_data.csv", "write_train", "upload_train")
\* Mutant: the first upload is started and not waited for.
UploadTrainAsync == UploadData("train_data.csv", "upload_train", "write_test")

UploadTrain == UploadData("train_data.csv", "upload_train", "upload_train_wait")
UploadTrainReturn == UploadReturn("upload_train_wait", "write_test")
WriteTest == WriteCsv("test_data.csv", "write_test", "upload_test")
UploadTest == UploadData("test_data.csv", "upload_test", "upload_test_wait")
UploadTestReturn == UploadReturn("upload_test_wait", "config")

\* ----------------------------------------------------- job submission
\* input_data_config = [...]; output_data_config = {...}
Config ==
  /\ CanRun("config")
  /\ input_data_config' =
       [S3DataType |-> "S3Prefix", S3Uri |-> S3Uri(bucket, prefix, "train"),
        TargetAttributeName |-> Target]
  /\ output_data_config' = [S3OutputPath |-> S3Uri(bucket, prefix, "output")]
  /\ Local("name_job")
  /\ UNCHANGED <<envVars, bucket, dataVars, auto_ml_job_name, describe_response,
                 job_run_status, nbkVars, hostVars, remoteVars, histVars>>

\* auto_ml_job_name = 'automl-churn-' + timestamp_suffix
NameJob ==
  /\ CanRun("name_job")
  /\ \E t \in Timestamps :
       /\ timestamp_suffix' = t
       /\ auto_ml_job_name' = Name("automl-churn-", t, "")
  /\ Local("create_job")
  /\ UNCHANGED <<envVars, bucket, dataVars, input_data_config, output_data_config,
                 describe_response, job_run_status, nbkVars, best_candidate,
                 model_name, epc_name, ep_name, prediction, evalVars, remoteVars,
                 histVars>>

\* Mutant: the job is pointed at the test folder and given no candidate limit.
CreateJobPayloadTestFolder ==
  [AutoMLJobName |-> auto_ml_job_name,
   InputDataConfig |->
     [input_data_config EXCEPT !.S3Uri = S3Uri(bucket, prefix, "test")],
   OutputDataConfig |-> output_data_config,
   MaxCandidates |-> 0]

\* The payload of sm.create_auto_ml_job(...)
CreateJobPayload ==
  [AutoMLJobName |-> auto_ml_job_name,
   InputDataConfig |-> input_data_config,
   OutputDataConfig |-> output_data_config,
   MaxCandidates |-> MaxCandidates]

\* sm.create_auto_ml_job(...)
CreateJob ==
  /\ CanRun("create_job")
  /\ Issue(Call("create_auto_ml_job", "create_job", CreateJobPayload),
           "create_job_wait")
  /\ UNCHANGED <<envVars, bucket, dataVars, jobVars, nbkVars, hostVars,
                 remoteVars, histVars>>

\* The service registers the job; it starts in progress.
CreateJobReturn ==
  \E c \in Pending("create_auto_ml_job", "create_job_wait") :
    /\ job = Unset
    /\ Answered(c, "poll_init")
    /\ job' = [name |-> c.arg.AutoMLJobName, request |-> c.arg,
               status |-> "InProgress"]
    /\ UNCHANGED <<envVars, bucket, dataVars, jobVars, nbkVars, hostVars,
                   s3, models, epcs, eps, histVars>>

\* ---------------------------------------------------- the polling loop
\* What describe_auto_ml_job answers for the job as it is now.
DescribeAnswer ==
  [AutoMLJobName |-> job.name,
   AutoMLJobStatus |-> job.status,
   CandidateDefinitionNotebookLocation |->
     job.request.OutputDataConfig.S3OutputPath
       \o <<"/", "notebooks", "/", "CandidateDefinitionNotebook.ipynb">>,
   DataExplorationNotebookLocation |->
     job.request.OutputDataConfig.S3OutputPath
       \o <<"/", "notebooks", "/", "DataExplorationNotebook.ipynb">>]

\* Mutant: the statement submits the job again instead of describing it.
DescribeCallResubmits(site) ==
  Call("create_auto_ml_job", site,
       [AutoMLJobName |-> auto_ml_job_name,
        InputDataConfig |-> input_data_config,
        OutputDataConfig |-> output_data_config,
        MaxCandidates |-> MaxCandidates])

\* sm.describe_auto_ml_job(AutoMLJobName=auto_ml_job_name)
DescribeCall(site) ==
  Call("describe_auto_ml_job", site, [AutoMLJobName |-> auto_ml_job_name])

\* The service knows the job the call names.
Known(c) == job # Unset /\ c.arg.AutoMLJobName = job.name

\* describe_response = sm.describe_auto_ml_job(...) before the loop
PollInit ==
  /\ CanRun("poll_init")
  /\ Issue(DescribeCall("poll_init"), "poll_init_wait")
  /\ sleepsSinceQuery' = 0
  /\ UNCHANGED <<envVars, bucket, dataVars, jobVars, nbkVars, hostVars,
                 remoteVars, bodyRuns>>

\* job_run_status = describe_response['AutoMLJobStatus'] before the loop
PollInitReturn ==
  \E c \in Pending("describe_auto_ml_job", "poll_init_wait") :
    /\ Known(c)
    /\ Answered(c, "loop_test")
    /\ describe_response' = DescribeAnswer
    /\ job_run_status' = DescribeAnswer.AutoMLJobStatus
    /\ UNCHANGED <<envVars, bucket, dataVars, input_data_config,
                   output_data_config, auto_ml_job_name, nbkVars, hostVars,
                   remoteVars, histVars>>

\* Mutant: only 'InProgress' keeps the loop going.
LoopContinuesInProgressOnly(status) == status = "InProgress"

\* Mutant: the loop gives up after two runs of its body (a timeout).
LoopContinuesTimeout(status) == status \notin Terminal /\ bodyRuns < 2

\* job_run_status not in ('Failed', 'Completed', 'Stopped')
LoopContinues(status) == status \notin Terminal

\* while job_run_status not in (...):
LoopTest ==
  /\ CanRun("loop_test")
  /\ IF LoopContinues(job_run_status)
     THEN Local("loop_query") /\ bodyRuns' = Inc(bodyRuns)
     ELSE Local("artifacts") /\ UNCHANGED bodyRuns
  /\ UNCHANGED <<envVars, bucket, dataVars, jobVars, nbkVars, hostVars,
                 remoteVars, sleepsSinceQuery>>

\* describe_response = sm.describe_auto_ml_job(...) in the loop body
LoopQuery ==
  /\ CanRun("loop_query")
  /\ Issue(DescribeCall("loop_query"), "loop_query_wait")
  /\ sleepsSinceQuery' = 0
  /\ UNCHANGED <<envVars, bucket, dataVars, jobVars, nbkVars, hostVars,
                 remoteVars, bodyRuns>>

\* Mutant: the loop body keeps the status of the answer and not the answer.
LoopQueryReturnStatusOnly ==
  \E c \in Pending("describe_auto_ml_job", "loop_query_wait") :
    /\ Known(c)
    /\ Answered(c, "loop_sleep")
    /\ job_run_status' = DescribeAnswer.AutoMLJobStatus
    /\ UNCHANGED <<envVars, bucket, dataVars, input_data_config,
                   output_data_config, auto_ml_job_name, describe_response,
                   nbkVars, hostVars, remoteVars, histVars>>

\* job_run_status = describe_response['AutoMLJobStatus'] in the loop body
LoopQueryReturn ==
  \E c \in Pending("describe_auto_ml_job", "loop_query_wait") :
    /\ Known(c)
    /\ Answered(c, "loop_sleep")
    /\ describe_response' = DescribeAnswer
    /\ job_run_status' = DescribeAnswer.AutoMLJobStatus
    /\ UNCHANGED <<envVars, bucket, dataVars, input_data_config,
                   output_data_config, auto_ml_job_name, nbkVars, hostVars,
                   remoteVars, histVars>>

\* sleep(30), the last statement of the loop body
Sleep ==
  /\ CanRun("loop_sleep")
  /\ sleepsSinceQuery' = Inc(sleepsSinceQuery)
  /\ Local("loop_test")
  /\ UNCHANGED <<envVars, bucket, dataVars, jobVars, nbkVars, hostVars,
                 remoteVars, bodyRuns>>

\* ------------------------------------------- artifacts and candidates
\* Mutant: the artifacts are read only if the job completed; otherwise the
\* rest of the notebook is skipped.
ArtifactsIfCompleted ==
  /\ CanRun("artifacts")
  /\ IF job_run_status = "Completed"
     THEN /\ candidate_nbk' = describe_response.CandidateDefinitionNotebookLocation
          /\ data_explore_nbk' = describe_response.DataExplorationNotebookLocation
          /\ Local("split_paths")
     ELSE /\ UNCHANGED <<candidate_nbk, data_explore_nbk>>
          /\ Local("end")
  /\ UNCHANGED <<envVars, bucket, dataVars, jobVars, s3_bucket,
                 candidate_nbk_key, data_explore_nbk_key, hostVars, remoteVars,
                 histVars>>

\* candidate_nbk = describe_response['AutoMLJobArtifacts'][...]: the response
\* of a job that did not complete may have no artifacts, and the subscript
\* then raises KeyError.
Artifacts ==
  /\ CanRun("artifacts")
  /\ \E has \in BOOLEAN :
       /\ describe_response.AutoMLJobStatus = "Completed" => has
       /\ IF has
          THEN /\ candidate_nbk' =
                    describe_response.CandidateDefinitionNotebookLocation
               /\ data_explore_nbk' =
                    describe_response.DataExplorationNotebookLocation
               /\ Local("split_paths")
          ELSE /\ Raise("KeyError", "artifacts")
               /\ UNCHANGED <<candidate_nbk, data_explore_nbk, inflight, calls,
                              lastOutcome>>
  /\ UNCHANGED <<envVars, bucket, dataVars, jobVars, s3_bucket,
                 candidate_nbk_key, data_explore_nbk_key, hostVars, remoteVars,
                 histVars>>

\* str.replace(old, ""): the occurrences of old are removed, found from left
\* to right without overlap.
Remove(s, old) ==
  LET F[i \in 1..(Len(s) + 1)] ==
        IF i > Len(s) THEN <<>>
        ELSE IF i + Len(old) - 1 <= Len(s) /\ SubSeq(s, i, i + Len(old) - 1) = old
             THEN F[i + Len(old)]
             ELSE <<s[i]>> \o F[i + 1]
  IN F[1]

\* str.split("/"): the parts between the separators.
SplitSlash(s) ==
  LET F[i \in 0..Len(s)] ==
        IF i = 0 THEN << <<>> >>
        ELSE IF s[i] = "/" THEN Append(F[i-1], <<>>)
        ELSE [F[i-1] EXCEPT ![Len(F[i-1])] = Append(@, s[i])]
  IN F[Len(s)]

\* "/".join(parts)
JoinSlash(parts) ==
  LET F[i \in 0..Len(parts)] ==
        IF i = 0 THEN <<>>
        ELSE IF i = 1 THEN parts[1]
        ELSE F[i-1] \o <<"/">> \o parts[i]
  IN F[Len(parts)]

\* Mutant: the key is the part after the bucket, up to the next '/'.
split_s3_path_one_part(s3_path) ==
  LET path_parts == SplitSlash(Remove(s3_path, Scheme))
  IN [bucket |-> Head(path_parts),
      key |-> IF Len(path_parts) > 1 THEN path_parts[2] ELSE <<>>]

\* def split_s3_path(s3_path): return bucket, key
split_s3_path(s3_path) ==
  LET path_parts == SplitSlash(Remove(s3_path, Scheme))
  IN [bucket |-> Head(path_parts), key |-> JoinSlash(Tail(path_parts))]

\* s3_bucket, candidate_nbk_key = split_s3_path(candidate_nbk)
\* _, data_explore_nbk_key = split_s3_path(data_explore_nbk)
SplitPaths ==
  /\ CanRun("split_paths")
  /\ s3_bucket' = split_s3_path(candidate_nbk).bucket
  /\ candidate_nbk_key' = split_s3_path(candidate_nbk).key
  /\ data_explore_nbk_key' = split_s3_path(data_explore_nbk).key
  /\ Local("download_candidate")
  /\ UNCHANGED <<envVars, bucket, dataVars, jobVars, candidate_nbk,
                 data_explore_nbk, hostVars, remoteVars, histVars>>

\* session.download_data(path='./', bucket=s3_bucket, key_prefix=...)
DownloadData(key, at, blocked) ==
  /\ CanRun(at)
  /\ Issue(Call("download_data", at, [bucket |-> s3_bucket, key_prefix |-> key]),
           blocked)
  /\ UNCHANGED <<envVars, bucket, dataVars, jobVars, nbkVars, hostVars,
                 remoteVars, histVars>>

\* The objects are copied to the working directory.
DownloadReturn(at, to) ==
  \E c \in Pending("download_data", at) :
    /\ Answered(c, to)
    /\ UNCHANGED <<envVars, bucket, dataVars, jobVars, nbkVars, hostVars,
                   remoteVars, histVars>>

DownloadCandidate ==
  DownloadData(candidate_nbk_key, "download_candidate", "download_candidate_wait")
DownloadCandidateReturn ==
  DownloadReturn("download_candidate_wait", "download_explore")
DownloadExplore ==
  DownloadData(data_explore_nbk_key, "download_explore", "download_explore_wait")
DownloadExploreReturn == DownloadReturn("download_explore_wait", "best_candidate")

\* sm.describe_auto_ml_job(AutoMLJobName=auto_ml_job_name)['BestCandidate']
BestCandidate ==
  /\ CanRun("best_candidate")
  /\ Issue(DescribeCall("best_candidate"), "best_candidate_wait")
  /\ UNCHANGED <<envVars, bucket, dataVars, jobVars, nbkVars, hostVars,
                 remoteVars, histVars>>

\* The candidate the service reports as best.
BestOfJob ==
  [CandidateName |-> "tuning-job-1",
   InferenceContainers |-> <<"data-processing", "xgboost", "inverse-label">>]

\* best_candidate = ...['BestCandidate']: a job that did not complete may
\* have no best candidate, and the subscript then raises KeyError.
BestCandidateReturn ==
  \E c \in Pending("describe_auto_ml_job", "best_candidate_wait"),
     has \in BOOLEAN :
    /\ Known(c)
    /\ job.status = "Completed" => has
    /\ inflight' = inflight \ {c}
    /\ lastOutcome' = "ok"
    /\ IF has
       THEN pc' = "list_candidates" /\ best_candidate' = BestOfJob
            /\ UNCHANGED fault
       ELSE Raise("KeyError", "best_candidate") /\ UNCHANGED best_candidate
    /\ UNCHANGED <<envVars, calls, bucket, dataVars, jobVars, nbkVars,
                   timestamp_suffix, model_name, epc_name, ep_name, prediction,
                   evalVars, remoteVars, histVars>>

\* sm_dict = sm.list_candidates_for_auto_ml_job(AutoMLJobName=auto_ml_job_name)
ListCandidates ==
  /\ CanRun("list_candidates")
  /\ Issue(Call("list_candidates_for_auto_ml_job", "list_candidates",
                [AutoMLJobName |-> auto_ml_job_name]), "list_candidates_wait")
  /\ UNCHANGED <<envVars, bucket, dataVars, jobVars, nbkVars, hostVars,
                 remoteVars, histVars>>

\* The candidates are printed.
ListCandidatesReturn ==
  \E c \in Pending("list_candidates_for_auto_ml_job", "list_candidates_wait") :
    /\ Known(c)
    /\ Answered(c, "name_model")
    /\ UNCHANGED <<envVars, bucket, dataVars, jobVars, nbkVars, hostVars,
                   remoteVars, histVars>>

\* ---------------------------------------------------------- hosting
\* timestamp_suffix = strftime(...); model_name = best_candidate_name + ... + "-model"
NameModel ==
  /\ CanRun("name_model")
  /\ \E t \in Timestamps :
       /\ timestamp_suffix' = t
       /\ model_name' = Name(best_candidate.CandidateName, t, "-model")
  /\ Local("create_model")
  /\ UNCHANGED <<envVars, bucket, dataVars, jobVars, nbkVars, best_candidate,
                 epc_name, ep_name, prediction, evalVars, remoteVars, histVars>>

\* sm.create_model(Containers=..., ModelName=model_name, ExecutionRoleArn=role)
CreateModel ==
  /\ CanRun("create_model")
  /\ Issue(Call("create_model", "create_model",
                [ModelName |-> model_name,
                 Containers |-> best_candidate.InferenceContainers]),
           "create_model_wait")
  /\ UNCHANGED <<envVars, bucket, dataVars, jobVars, nbkVars, hostVars,
                 remoteVars, histVars>>

\* The service registers the model.
CreateModelReturn ==
  \E c \in Pending("create_model", "create_model_wait") :
    /\ \A m \in models : m.name # c.arg.ModelName
    /\ Answered(c, "create_endpoint_config")
    /\ models' = models \cup {[name |-> c.arg.ModelName,
                               containers |-> c.arg.Containers]}
    /\ UNCHANGED <<envVars, bucket, dataVars, jobVars, nbkVars, hostVars,
                   s3, job, epcs, eps, histVars>>

\* epc_name = ... + "-epc"; sm.create_endpoint_config(EndpointConfigName=epc_name, ...)
CreateEndpointConfig ==
  /\ CanRun("create_endpoint_config")
  /\ epc_name' = Name(best_candidate.CandidateName, timestamp_suffix, "-epc")
  /\ Issue(Call("create_endpoint_config", "create_endpoint_config",
                [EndpointConfigName |->
                   Name(best_candidate.CandidateName, timestamp_suffix, "-epc"),
                 ModelName |-> model_name,
                 InitialInstanceCount |-> InitialInstanceCount]),
           "create_endpoint_config_wait")
  /\ UNCHANGED <<envVars, bucket, dataVars, jobVars, nbkVars, timestamp_suffix,
                 best_candidate, model_name, ep_name, prediction, evalVars,
                 remoteVars, histVars>>

\* The service registers the configuration of a model it knows.
CreateEndpointConfigReturn ==
  \E c \in Pending("create_endpoint_config", "create_endpoint_config_wait") :
    /\ \A e \in epcs : e.name # c.arg.EndpointConfigName
    /\ \E m \in models : m.name = c.arg.ModelName
    /\ Answered(c, "create_endpoint")
    /\ epcs' = epcs \cup {[name |-> c.arg.EndpointConfigName,
                           model |-> c.arg.ModelName]}
    /\ UNCHANGED <<envVars, bucket, dataVars, jobVars, nbkVars, hostVars,
                   s3, job, models, eps, histVars>>

\* ep_name = ... + "-ep"; sm.create_endpoint(EndpointName=ep_name, ...)
CreateEndpoint ==
  /\ CanRun("create_endpoint")
  /\ ep_name' = Name(best_candidate.CandidateName, timestamp_suffix, "-ep")
  /\ Issue(Call("create_endpoint", "create_endpoint",
                [EndpointName |->
                   Name(best_candidate.CandidateName, timestamp_suffix, "-ep"),
                 EndpointConfigName |-> epc_name]),
           "create_endpoint_wait")
  /\ UNCHANGED <<envVars, bucket, dataVars, jobVars, nbkVars, timestamp_suffix,
                 best_candidate, model_name, epc_name, prediction, evalVars,
                 remoteVars, histVars>>

\* Mutant: after create_endpoint the run goes straight to the prediction.
CreateEndpointReturnSkipsWait ==
  \E c \in Pending("create_endpoint", "create_endpoint_wait") :
    /\ Answered(c, "predict")
    /\ eps' = eps \cup {[name |-> c.arg.EndpointName,
                         config |-> c.arg.EndpointConfigName,
                         status |-> "InService"]}
    /\ UNCHANGED <<envVars, bucket, dataVars, jobVars, nbkVars, hostVars,
                   s3, job, models, epcs, histVars>>

\* The service starts creating the endpoint of a configuration it knows.
CreateEndpointReturn ==
  \E c \in Pending("create_endpoint", "create_endpoint_wait") :
    /\ \A e \in eps : e.name # c.arg.EndpointName
    /\ \E e \in epcs : e.name = c.arg.EndpointConfigName
    /\ Answered(c, "wait")
    /\ eps' = eps \cup {[name |-> c.arg.EndpointName,
                         config |-> c.arg.EndpointConfigName,
                         status |-> "Creating"]}
    /\ UNCHANGED <<envVars, bucket, dataVars, jobVars, nbkVars, hostVars,
                   s3, job, models, epcs, histVars>>

\* Mutant: the waiter is given the name of the endpoint configuration.
WaitOnConfigName ==
  /\ CanRun("wait")
  /\ Issue(Call("wait", "wait", [EndpointName |-> epc_name]), "wait_wait")
  /\ UNCHANGED <<envVars, bucket, dataVars, jobVars, nbkVars, hostVars,
                 remoteVars, histVars>>

\* sm.get_waiter('endpoint_in_service').wait(EndpointName=ep_name)
Wait ==
  /\ CanRun("wait")
  /\ Issue(Call("wait", "wait", [EndpointName |-> ep_name]), "wait_wait")
  /\ UNCHANGED <<envVars, bucket, dataVars, jobVars, nbkVars, hostVars,
                 remoteVars, histVars>>

\* The waiter returns once the endpoint is in service.
WaitReturn ==
  \E c \in Pending("wait", "wait_wait") :
    /\ \E e \in eps : e.name = c.arg.EndpointName /\ e.status = "InService"
    /\ Answered(c, "predict")
    /\ UNCHANGED <<envVars, bucket, dataVars, jobVars, nbkVars, hostVars,
                   remoteVars, histVars>>

\* ------------------------------------------------------- evaluation
\* The characters of a version string and their code points.
Digits == <<"0", "1", "2", "3", "4", "5", "6", "7", "8", "9">>
DigitValue(c) == CHOOSE d \in 0..9 : Digits[d + 1] = c
Ord(c) == IF c = "." THEN 46 ELSE 48 + DigitValue(c)

\* Python's a < b on strings: the first differing character decides, and a
\* proper prefix is smaller.
StrLess(a, b) ==
  \E i \in 1..Len(b) :
    /\ Len(a) >= i - 1
    /\ \A j \in 1..(i - 1) : a[j] = b[j]
    /\ (Len(a) = i - 1 \/ Ord(a[i]) < Ord(b[i]))

\* Values sagemaker.__version__ can have: major.minor.patch.
SdkVersions ==
  { major \o <<".">> \o minor \o <<".", "0">> :
      major \in { <<"1">>, <<"2">>, <<"1", "0">> },
      minor \in { <<"0">>, <<"7", "2">> } }

\* if (sagemaker.__version__ < '2'):
LegacySdk(v) == StrLess(v, <<"2">>)

\* Mutant: the rows sent for inference are the test rows with their target.
InferenceFrameWithTarget == test_data

\* test_data_inference = test_data.drop('Churn?', axis=1), on either branch
InferenceFrame == DropColumns(test_data, Target)

\* The evaluation cell up to the request: the predictor of the branch the SDK
\* version selects, and
\* predictor.predict(test_data_inference.to_csv(sep=',', header=False, index=False))
Predict ==
  /\ CanRun("predict")
  /\ \E v \in SdkVersions :
       /\ sdk_version' = v
       /\ predictor' = [class |-> IF LegacySdk(v) THEN "RealTimePredictor"
                                  ELSE "Predictor",
                        endpoint |-> ep_name]
  /\ test_data_inference' = InferenceFrame
  /\ Issue(Call("predict", "predict",
                [EndpointName |-> ep_name,
                 body |-> CsvText(InferenceFrame, FALSE)]),
           "predict_wait")
  /\ UNCHANGED <<envVars, bucket, dataVars, jobVars, nbkVars, timestamp_suffix,
                 best_candidate, model_name, epc_name, ep_name, prediction,
                 prediction_df, accuracy, precision, recall, f1, remoteVars,
                 histVars>>

\* What the endpoint can answer: one predicted label per line of the request.
EndpointAnswers(body) == [1..Len(body) -> Labels]

\* What predict returns: the decoded text (legacy predictor), or the rows
\* CSVDeserializer makes of it; either way one list of fields per line.
Deserialize(class, answer) ==
  [type |-> IF class = "RealTimePredictor" THEN "str" ELSE "list",
   lines |-> [i \in 1..Len(answer) |-> <<answer[i]>>]]

\* The type read_csv infers for a column of texts: booleans if every text is a
\* boolean word, else the texts as they are.
InferColumn(col) ==
  IF \A i \in 1..Len(col) : col[i] \in {"True", "False", "TRUE", "FALSE", "true", "false"}
  THEN [i \in 1..Len(col) |-> Cell("bool", col[i])]
  ELSE [i \in 1..Len(col) |-> Cell("str", col[i])]

\* prediction_df[0]: pd.read_csv(StringIO(prediction), header=None) on the
\* legacy branch, pd.DataFrame(prediction) on the other.
PredictionColumn(pred) ==
  IF pred.type = "str"
  THEN InferColumn([i \in 1..Len(pred.lines) |-> pred.lines[i][1]])
  ELSE [i \in 1..Len(pred.lines) |-> Cell("str", pred.lines[i][1])]

\* A ratio as the pair of its terms.
Ratio(num, den) == [num |-> num, den |-> den]

\* Mutant: the matches are divided by the number of rows of the whole dataset.
AccuracyOverAllRows(truth, pred, n) ==
  Ratio(Cardinality({ i \in 1..Len(truth) : truth[i] = pred[i] }),
        Cardinality(churn.rows))

\* (test_data.reset_index()['Churn?'] == prediction_df[0]).sum()
\*    / len(test_data_inference)
Accuracy(truth, pred, n) ==
  Ratio(Cardinality({ i \in 1..Len(truth) : truth[i] = pred[i] }), n)

\* The answer arrives and the rest of the evaluation cell runs: the frame of
\* predictions, the accuracy, the print.  An empty answer (no test rows) makes
\* read_csv raise EmptyDataError on the legacy branch and prediction_df[0]
\* raise KeyError on the other.
PredictReturn ==
  \E c \in Pending("predict", "predict_wait") :
    \E answer \in EndpointAnswers(c.arg.body) :
      /\ \E e \in eps : e.name = c.arg.EndpointName /\ e.status = "InService"
      /\ inflight' = inflight \ {c}
      /\ lastOutcome' = "ok"
      /\ prediction' = Deserialize(predictor.class, answer)
      /\ IF answer = <<>>
         THEN /\ Raise(IF predictor.class = "RealTimePredictor"
                       THEN "EmptyDataError" ELSE "KeyError", "predict")
              /\ UNCHANGED <<prediction_df, accuracy>>
         ELSE /\ prediction_df' =
                   [column0 |-> PredictionColumn(Deserialize(predictor.class, answer))]
              /\ accuracy' =
                   Accuracy(ResetIndexTarget(test_data),
                            PredictionColumn(Deserialize(predictor.class, answer)),
                            Cardinality(test_data_inference.rows))
              /\ pc' = "metrics"
              /\ UNCHANGED fault
      /\ UNCHANGED <<envVars, calls, bucket, dataVars, jobVars, nbkVars,
                     timestamp_suffix, best_candidate, model_name, epc_name,
                     ep_name, sdk_version, predictor, test_data_inference,
                     precision, recall, f1, remoteVars, histVars>>

\* Number of positions where truth is a and the prediction is b.
Count(truth, pred, a, b) ==
  Cardinality({ i \in 1..Len(truth) : truth[i] = a /\ pred[i] = b })

\* sklearn reports 0 for a score whose denominator is 0.
Score(num, den) == IF den = 0 THEN Ratio(0, 1) ELSE Ratio(num, den)

\* accuracy_score(y_true, y_pred): the fraction of positions that agree.
accuracy_score(truth, pred) ==
  Ratio(Cardinality({ i \in 1..Len(truth) : truth[i] = pred[i] }), Len(truth))

\* precision_score, recall_score and f1_score with pos_label='True.'
precision_score(truth, pred, pos) ==
  Score(Count(truth, pred, pos, pos),
        Cardinality({ i \in 1..Len(pred) : pred[i] = pos }))
recall_score(truth, pred, pos) ==
  Score(Count(truth, pred, pos, pos),
        Cardinality({ i \in 1..Len(truth) : truth[i] = pos }))
f1_score(truth, pred, pos) ==
  Score(2 * Count(truth, pred, pos, pos),
        Cardinality({ i \in 1..Len(pred) : pred[i] = pos })
          + Cardinality({ i \in 1..Len(truth) : truth[i] = pos }))

\* The metrics cell: accuracy, precision, recall and F1 are computed again from
\* test_data and prediction_df, and printed.
Metrics ==
  /\ CanRun("metrics")
  /\ accuracy' = accuracy_score(ResetIndexTarget(test_data), prediction_df.column0)
  /\ precision' = precision_score(ResetIndexTarget(test_data), prediction_df.column0,
                                  Cell("str", "True."))
  /\ recall' = recall_score(ResetIndexTarget(test_data), prediction_df.column0,
                            Cell("str", "True."))
  /\ f1' = f1_score(ResetIndexTarget(test_data), prediction_df.column0,
                    Cell("str", "True."))
  /\ Local("cleanup_s3")
  /\ UNCHANGED <<envVars, bucket, dataVars, jobVars, nbkVars, timestamp_suffix,
                 best_candidate, model_name, epc_name, ep_name, prediction,
                 sdk_version, predictor, test_data_inference, prediction_df,
                 remoteVars, histVars>>

\* ---------------------------------------------------------- cleanup
\* Mutant: the cleanup cells are code cells.
CleanupCellTypeCode == "code"

\* "cell_type" of the two cleanup cells.
CleanupCellType == "markdown"

\* The cell with the job outputs: its delete line is commented out as well.
CleanupJobOutputs ==
  /\ CanRun("cleanup_s3")
  /\ Local("cleanup_endpoint")
  /\ UNCHANGED <<envVars, bucket, dataVars, jobVars, nbkVars, hostVars,
                 remoteVars, histVars>>

\* The cell with delete_endpoint, delete_endpoint_config and delete_model: the
\* kernel executes code cells only.
CleanupEndpoint ==
  /\ CanRun("cleanup_endpoint")
  /\ Local("end")
  /\ IF CleanupCellType = "code"
     THEN /\ eps' = { e \in eps : e.name # ep_name }
          /\ epcs' = { e \in epcs : e.name # epc_name }
          /\ models' = { m \in models : m.name # model_name }
     ELSE UNCHANGED <<eps, epcs, models>>
  /\ UNCHANGED <<envVars, bucket, dataVars, jobVars, nbkVars, hostVars,
                 s3, job, histVars>>

\* ------------------------------------------------------ the service
\* The statuses a job can move to: 'InProgress' and 'Stopping' are the
\* statuses of a job that has not ended.
NextStatus(status) ==
  CASE status = "InProgress" -> {"Completed", "Failed", "Stopping"}
    [] status = "Stopping" -> {"Stopped"}
    [] OTHER -> {}

\* The objects the job writes under its output path.
JobOutputs ==
  { [bucket |-> split_s3_path(job.request.OutputDataConfig.S3OutputPath).bucket,
     key |-> split_s3_path(loc).key,
     body |-> [artifact |-> TRUE]] :
      loc \in { DescribeAnswer.CandidateDefinitionNotebookLocation,
                DescribeAnswer.DataExplorationNotebookLocation } }

\* The job moves on, by the service's own doing, and leaves its outputs.
JobProgress ==
  /\ job # Unset
  /\ \E st \in NextStatus(job.status) : job' = [job EXCEPT !.status = st]
  /\ s3' = s3 \cup JobOutputs
  /\ UNCHANGED <<clientVars, envVars, inflight, calls, lastOutcome, models,
                 epcs, eps, histVars>>

\* The endpoint comes into service, or fails to.
EndpointProgress ==
  /\ \E e \in eps, st \in {"InService", "Failed"} :
       /\ e.status = "Creating"
       /\ eps' = (eps \ {e}) \cup {[e EXCEPT !.status = st]}
  /\ UNCHANGED <<clientVars, envVars, inflight, calls, lastOutcome, s3, job,
                 models, epcs, histVars>>

\* Mutant: a failed query of the loop body is swallowed and retried after the sleep.
RemoteFaultRetried ==
  \E c \in inflight :
    /\ inflight' = inflight \ {c}
    /\ lastOutcome' = "error"
    /\ IF c.site = "loop_query"
       THEN pc' = "loop_sleep" /\ UNCHANGED fault
       ELSE Raise("ClientError", c.site)
    /\ UNCHANGED <<envVars, calls, bucket, dataVars, jobVars, nbkVars, hostVars,
                   remoteVars, histVars>>

\* A remote call fails: the exception is not caught anywhere.
RemoteFault ==
  \E c \in inflight :
    /\ inflight' = inflight \ {c}
    /\ lastOutcome' = "error"
    /\ Raise("ClientError", c.site)
    /\ UNCHANGED <<envVars, calls, bucket, dataVars, jobVars, nbkVars, hostVars,
                   remoteVars, histVars>>

\* A statement reads a name that is not bound: NameError.
NameError ==
  /\ ~(Reads(pc) \subseteq bound)
  /\ Raise("NameError", pc)
  /\ UNCHANGED <<envVars, inflight, calls, lastOutcome, bucket, dataVars,
                 jobVars, nbkVars, hostVars, remoteVars, histVars>>

\* ------------------------------------------------- the specification
Client ==
  \/ Setup \/ LoadData \/ Split
  \/ WriteTrain \/ UploadTrain \/ WriteTest \/ UploadTest
  \/ Config \/ NameJob \/ CreateJob
  \/ PollInit \/ LoopTest \/ LoopQuery \/ Sleep
  \/ Artifacts \/ SplitPaths \/ DownloadCandidate \/ DownloadExplore
  \/ BestCandidate \/ ListCandidates
  \/ NameModel \/ CreateModel \/ CreateEndpointConfig \/ CreateEndpoint
  \/ Wait \/ Predict \/ Metrics
  \/ CleanupJobOutputs \/ CleanupEndpoint
  \/ NameError

Reply ==
  \/ SetupReturn \/ UploadTrainReturn \/ UploadTestReturn \/ CreateJobReturn
  \/ PollInitReturn \/ LoopQueryReturn
  \/ DownloadCandidateReturn \/ DownloadExploreReturn
  \/ BestCandidateReturn \/ ListCandidatesReturn
  \/ CreateModelReturn \/ CreateEndpointConfigReturn \/ CreateEndpointReturn
  \/ WaitReturn \/ PredictReturn
  \/ RemoteFault

Service == JobProgress \/ EndpointProgress

Next == Client \/ Reply \/ Service

Spec == Init /\ [][Next]_vars

\* ------------------------------ the run from the submission of the job
\* The state in which the kernel reaches sm.create_auto_ml_job: the setup, data
\* and upload cells have run without an exception on a three-row dataset.
AtSubmission ==
  /\ pc = "create_job"
  /\ bound = KernelNames
  /\ fault = Unset
  /\ bucket \in { b \in BucketNames : StartsWith(b, <<"sagemaker-lab">>) }
  /\ defaultBucket = bucket
  /\ churn = ReadCsv(3)
  /\ train_data \in Sample(churn)
  /\ test_data = DropIndex(churn, train_data.rows)
  /\ test_data_no_target = DropColumns(test_data, Target)
  /\ files = [f \in {"train_data.csv", "test_data.csv"} |-> CsvOf(f)]
  /\ input_data_config =
       [S3DataType |-> "S3Prefix", S3Uri |-> S3Uri(bucket, prefix, "train"),
        TargetAttributeName |-> Target]
  /\ output_data_config = [S3OutputPath |-> S3Uri(bucket, prefix, "output")]
  /\ timestamp_suffix \in Timestamps
  /\ auto_ml_job_name = Name("automl-churn-", timestamp_suffix, "")
  /\ describe_response = Unset
  /\ job_run_status = "unset"
  /\ candidate_nbk = <<>> /\ data_explore_nbk = <<>>
  /\ s3_bucket = <<>> /\ candidate_nbk_key = <<>> /\ data_explore_nbk_key = <<>>
  /\ best_candidate = Unset /\ model_name = Unset /\ epc_name = Unset
  /\ ep_name = Unset /\ prediction = Unset
  /\ sdk_version = <<>> /\ predictor = Unset /\ test_data_inference = Unset
  /\ prediction_df = Unset
  /\ accuracy = Unset /\ precision = Unset /\ recall = Unset /\ f1 = Unset
  /\ inflight = {}
  /\ s3 = { [bucket |-> defaultBucket, key |-> S3Key(KeyPrefixOf(f), f),
             body |-> files[f]] : f \in {"train_data.csv", "test_data.csv"} }
  /\ job = Unset
  /\ models = {} /\ epcs = {} /\ eps = {}
  /\ calls = [a \in Apis |->
                IF a = "list_buckets" THEN 1 ELSE IF a = "upload_data" THEN 2 ELSE 0]
  /\ sleepsSinceQuery = 0
  /\ bodyRuns = 0
  /\ lastOutcome = "ok"

\* The statements from the submission on.
ClientFromSubmission ==
  \/ CreateJob
  \/ PollInit \/ LoopTest \/ LoopQuery \/ Sleep
  \/ Artifacts \/ SplitPaths \/ DownloadCandidate \/ DownloadExplore
  \/ BestCandidate \/ ListCandidates
  \/ NameModel \/ CreateModel \/ CreateEndpointConfig \/ CreateEndpoint
  \/ Wait \/ Predict \/ Metrics
  \/ CleanupJobOutputs \/ CleanupEndpoint

\* The answers to the calls made from the submission on.
ReplyFromSubmission ==
  \/ CreateJobReturn
  \/ PollInitReturn \/ LoopQueryReturn
  \/ DownloadCandidateReturn \/ DownloadExploreReturn
  \/ BestCandidateReturn \/ ListCandidatesReturn
  \/ CreateModelReturn \/ CreateEndpointConfigReturn \/ CreateEndpointReturn
  \/ WaitReturn \/ PredictReturn
  \/ RemoteFault

NextFromSubmission == ClientFromSubmission \/ ReplyFromSubmission \/ Service

\* The kernel runs the next statement, and a blocking call returns or raises;
\* nothing is assumed of the service's own progress.
FairSpec ==
  /\ AtSubmission
  /\ [][NextFromSubmission]_vars
  /\ WF_vars(ClientFromSubmission)
  /\ WF_vars(ReplyFromSubmission)

\* ------------------------------------ the run from the evaluation cell
\* The state in which the kernel reaches the evaluation cell: every cell before
\* it has run without an exception, the job completed before the first query
\* and the endpoint is in service.
AtEvaluation ==
  /\ pc = "predict"
  /\ bound = KernelNames
  /\ fault = Unset
  /\ bucket = <<"sagemaker-lab", "-1">>
  /\ defaultBucket = <<"sagemaker", "-us-west-2">>
  /\ churn \in { ReadCsv(n) : n \in 1..MaxEvalRows }
  /\ train_data \in Sample(churn)
  /\ test_data = DropIndex(churn, train_data.rows)
  /\ test_data_no_target = DropColumns(test_data, Target)
  /\ files = [f \in {"train_data.csv", "test_data.csv"} |-> CsvOf(f)]
  /\ input_data_config =
       [S3DataType |-> "S3Prefix", S3Uri |-> S3Uri(bucket, prefix, "train"),
        TargetAttributeName |-> Target]
  /\ output_data_config = [S3OutputPath |-> S3Uri(bucket, prefix, "output")]
  /\ timestamp_suffix = 1
  /\ auto_ml_job_name = Name("automl-churn-", 1, "")
  /\ job = [name |-> auto_ml_job_name, request |-> CreateJobPayload,
            status |-> "Completed"]
  /\ describe_response = DescribeAnswer
  /\ job_run_status = "Completed"
  /\ candidate_nbk = describe_response.CandidateDefinitionNotebookLocation
  /\ data_explore_nbk = describe_response.DataExplorationNotebookLocation
  /\ s3_bucket = split_s3_path(candidate_nbk).bucket
  /\ candidate_nbk_key = split_s3_path(candidate_nbk).key
  /\ data_explore_nbk_key = split_s3_path(data_explore_nbk).key
  /\ best_candidate = BestOfJob
  /\ model_name = Name(best_candidate.CandidateName, 1, "-model")
  /\ epc_name = Name(best_candidate.CandidateName, 1, "-epc")
  /\ ep_name = Name(best_candidate.CandidateName, 1, "-ep")
  /\ prediction = Unset
  /\ sdk_version = <<>> /\ predictor = Unset /\ test_data_inference = Unset
  /\ prediction_df = Unset
  /\ accuracy = Unset /\ precision = Unset /\ recall = Unset /\ f1 = Unset
  /\ inflight = {}
  /\ s3 = { [bucket |-> defaultBucket, key |-> S3Key(KeyPrefixOf(f), f),
             body |-> files[f]] : f \in {"train_data.csv", "test_data.csv"} }
          \cup JobOutputs
  /\ models = { [name |-> model_name,
                 containers |-> best_candidate.InferenceContainers] }
  /\ epcs = { [name |-> epc_name, model |-> model_name] }
  /\ eps = { [name |-> ep_name, config |-> epc_name, status |-> "InService"] }
  /\ calls = [a \in Apis |->
                IF a \in {"upload_data", "describe_auto_ml_job", "download_data"}
                THEN 2 ELSE IF a = "predict" THEN 0 ELSE 1]
  /\ sleepsSinceQuery = 0
  /\ bodyRuns = 0
  /\ lastOutcome = "ok"

\* The statements from the evaluation cell on, and the answers to its request.
NextFromEvaluation ==
  \/ Predict \/ PredictReturn \/ RemoteFault
  \/ Metrics \/ CleanupJobOutputs \/ CleanupEndpoint

EvalSpec == AtEvaluation /\ [][NextFromEvaluation]_vars

\* -------------------------------------------- split_s3_path on its own
\* The texts of up to n characters over an alphabet.
Texts(alphabet, n) == UNION { [1..m -> alphabet] : m \in 0..n }

\* Bucket names (not empty, no '/') and keys given to split_s3_path.
BucketTexts == Texts({"s", "3", ":", "a"}, MaxBucketLen) \ { <<>> }
KeyTexts == Texts({"s", "3", ":", "/", "a"}, MaxKeyLen)

\* The kernel is at the statement that calls split_s3_path, with the two
\* locations some 's3://' + bucket + '/' + key; of the rest of the state only
\* the session is given, nothing else being read by the cell.
AtSplit ==
  /\ pc = "split_paths"
  /\ bound = KernelNames
  /\ fault = Unset
  /\ bucket = <<>>
  /\ churn = Unset /\ train_data = Unset /\ test_data = Unset
  /\ test_data_no_target = Unset
  /\ files = [f \in {"train_data.csv", "test_data.csv"} |-> Unset]
  /\ input_data_config = Unset /\ output_data_config = Unset
  /\ timestamp_suffix = 0
  /\ auto_ml_job_name = Unset /\ describe_response = Unset
  /\ job_run_status = "Completed"
  /\ \E b \in BucketTexts, k \in KeyTexts :
       /\ candidate_nbk = Scheme \o b \o <<"/">> \o k
       /\ data_explore_nbk = Scheme \o b \o <<"/">> \o k \o <<"a">>
  /\ s3_bucket = <<>> /\ candidate_nbk_key = <<>> /\ data_explore_nbk_key = <<>>
  /\ best_candidate = Unset /\ model_name = Unset /\ epc_name = Unset
  /\ ep_name = Unset /\ prediction = Unset
  /\ sdk_version = <<>> /\ predictor = Unset /\ test_data_inference = Unset
  /\ prediction_df = Unset
  /\ accuracy = Unset /\ precision = Unset /\ recall = Unset /\ f1 = Unset
  /\ inflight = {}
  /\ defaultBucket = <<"sagemaker", "-us-west-2">>
  /\ s3 = {}
  /\ job = Unset
  /\ models = {} /\ epcs = {} /\ eps = {}
  /\ calls = [a \in Apis |-> 0]
  /\ sleepsSinceQuery = 0
  /\ bodyRuns = 0
  /\ lastOutcome = "ok"

\* The statements of the cell, and the answers to its two downloads.
NextFromSplit ==
  \/ SplitPaths \/ DownloadCandidate \/ DownloadCandidateReturn
  \/ DownloadExplore \/ DownloadExploreReturn \/ RemoteFault

SplitSpec == AtSplit /\ [][NextFromSplit]_vars

\* ------------------------------------------------ positions in the run
\* The statements in the order the kernel reaches them.
Statements ==
  << "setup", "setup_wait", "read_csv", "split", "write_train", "upload_train",
     "upload_train_wait", "write_test", "upload_test", "upload_test_wait",
     "config", "name_job", "create_job", "create_job_wait",
     "poll_init", "poll_init_wait", "loop_test", "loop_query", "loop_query_wait",
     "loop_sleep",
     "artifacts", "split_paths", "download_candidate", "download_candidate_wait",
     "download_explore", "download_explore_wait", "best_candidate",
     "best_candidate_wait", "list_candidates", "list_candidates_wait",
     "name_model", "create_model", "create_model_wait", "create_endpoint_config",
     "create_endpoint_config_wait", "create_endpoint", "create_endpoint_wait",
     "wait", "wait_wait", "predict", "predict_wait", "metrics", "cleanup_s3",
     "cleanup_endpoint", "end" >>

\* Position of a statement in the run.
Pos(at) == CHOOSE i \in 1..Len(Statements) : Statements[i] = at

\* The statement the run is at, or stopped at.
Where == IF pc = "fault" THEN fault.at ELSE pc

\* The statements of the polling cell, from the first query to the sleep.
InLoop == pc # "fault" /\ Pos(pc) >= Pos("poll_init") /\ Pos(pc) <= Pos("loop_sleep")

\* The run has left the while loop by its condition.
PastLoop == Pos(Where) >= Pos("artifacts")

\* The APIs of the calls in flight.
InFlightApis == { c.api : c \in inflight }

\* ------------------------------------------------------------ claims
\* C1: the polling loop is left by its condition only when the last observed
\* status is Failed, Completed or Stopped; with any other status the next
\* statement is the loop body; with a terminal status the next statement is
\* the one after the loop and the body is not run (so a terminal first answer
\* means zero runs of the body).
C1_LoopExitsOnlyOnTerminal ==
  /\ [](PastLoop => job_run_status \in Terminal)
  /\ [][(pc = "loop_test" /\ pc' # pc) =>
          IF job_run_status \in Terminal
          THEN pc' = "artifacts" /\ bodyRuns' = bodyRuns
          ELSE pc' = "loop_query" /\ bodyRuns' = Inc(bodyRuns)]_vars
  /\ [][(pc = "poll_init_wait" /\ pc' = "loop_test") => bodyRuns' = 0]_vars

\* C1 witness: the loop was left after two or more runs of its body, one of
\* them on the in-progress status 'Stopping'.
C1_Witness ==
  pc = "artifacts" /\ bodyRuns >= 2 /\ job_run_status = "Stopped"

\* C2: the loop has no timeout: a non-terminal answer is always followed by
\* another query, however many came before; once the job is terminal the loop
\* is left (by its condition, or by an exception of a query); and the loop is
\* never left by its condition while the job is not terminal.
C2_NoTimeout ==
  /\ (pc = "loop_sleep" /\ job_run_status \notin Terminal)
       ~> (pc = "loop_query_wait")
  /\ (InLoop /\ job # Unset /\ job.status \in Terminal) ~> ~InLoop
  /\ [](PastLoop => job.status \in Terminal)

\* C2 witness: the body has run as often as the history counter can tell and
\* the job is still in progress.
C2_Witness ==
  pc = "loop_query_wait" /\ bodyRuns = MaxCount /\ job.status = "InProgress"

\* C3 (as claimed): every query of the loop body is issued after exactly one
\* sleep since the query before it, the first one included, and no query is
\* issued once a terminal status has been observed.
C3_FixedInterval ==
  pc = "loop_query" =>
    (sleepsSinceQuery = 1 /\ job_run_status \notin Terminal)

\* C4: create-model, create-endpoint-config, create-endpoint and the readiness
\* wait are issued at most once, each only after the one before it has been
\* answered; no prediction is requested before the wait has returned; none is
\* issued before a terminal status has been observed; a run that reaches the
\* end has issued each exactly once.
C4_DeploymentOrder ==
  /\ \A a \in {"create_model", "create_endpoint_config", "create_endpoint",
               "wait"} : calls[a] <= 1
  /\ calls["create_model"] >= 1 => (PastLoop /\ job_run_status \in Terminal)
  /\ calls["create_endpoint_config"] >= 1 =>
       (calls["create_model"] = 1 /\ "create_model" \notin InFlightApis)
  /\ calls["create_endpoint"] >= 1 =>
       (calls["create_endpoint_config"] = 1
        /\ "create_endpoint_config" \notin InFlightApis)
  /\ calls["wait"] >= 1 =>
       (calls["create_endpoint"] = 1 /\ "create_endpoint" \notin InFlightApis)
  /\ calls["predict"] >= 1 => (calls["wait"] = 1 /\ "wait" \notin InFlightApis)
  /\ pc = "end" =>
       \A a \in {"create_model", "create_endpoint_config", "create_endpoint",
                 "wait"} : calls[a] = 1

\* C4 witness: the prediction request is in flight.
C4_Witness == pc = "predict_wait" /\ "predict" \in InFlightApis

C7_FaultStopsRun ==
  /\ [](lastOutcome = "error" =>
          (pc = "fault" /\ fault.kind = "ClientError" /\ inflight = {}))
  /\ [][(lastOutcome # "error" /\ lastOutcome' = "error") =>
          (fault'.at \in { c.site : c \in inflight } /\ calls' = calls)]_vars
  /\ [][pc = "fault" => UNCHANGED <<clientVars, inflight, calls>>]_vars

\* C7 witness: the run stopped at a failed query of the loop body.
C7_Witness ==
  pc = "fault" /\ fault.at = "loop_query" /\ lastOutcome = "error"
  /\ bodyRuns >= 2

\* The payload the claim C8 describes, written out.
C8_Payload(r) ==
  /\ r.AutoMLJobName = auto_ml_job_name
  /\ r.InputDataConfig.S3Uri =
       <<"s", "3", ":", "/", "/">> \o bucket
         \o <<"/", "sagemaker", "/", "DEMO-xgboost-churn", "/", "train">>
  /\ r.InputDataConfig.TargetAttributeName = "Churn?"
  /\ r.OutputDataConfig.S3OutputPath =
       <<"s", "3", ":", "/", "/">> \o bucket
         \o <<"/", "sagemaker", "/", "DEMO-xgboost-churn", "/", "output">>
  /\ r.MaxCandidates = 20

\* C8: the job is submitted at most once, and exactly once in a run that gets
\* to a status query or to the end; the submission has been answered before
\* the first status query; its payload names the '/train' input location, the
\* target 'Churn?', the '/output' location and the limit 20; every later call
\* about the job names the submitted job.
C8_OneSubmission ==
  /\ calls["create_auto_ml_job"] <= 1
  /\ \A c \in inflight : c.api = "create_auto_ml_job" =>
       (C8_Payload(c.arg) /\ calls["describe_auto_ml_job"] = 0)
  /\ job # Unset => C8_Payload(job.request)
  /\ (calls["describe_auto_ml_job"] >= 1 \/ pc = "end") =>
       (calls["create_auto_ml_job"] = 1 /\ job # Unset)
  /\ \A c \in inflight :
       c.api \in {"describe_auto_ml_job", "list_candidates_for_auto_ml_job"} =>
         c.arg.AutoMLJobName = job.name

\* C8 witness: a query of the loop body is in flight.
C8_Witness ==
  pc = "loop_query_wait" /\ "describe_auto_ml_job" \in InFlightApis
  /\ calls["describe_auto_ml_job"] >= 2

\* C9: once the job exists it changes only in steps in which the client does
\* nothing; every call about the job is then describe-job or list-candidates;
\* the polling loop has only describe-job calls in flight and no step of the
\* client in the loop changes anything remote.
C9_JobReadOnly ==
  /\ [][(job # Unset /\ job' # job) =>
          UNCHANGED <<clientVars, inflight, calls>>]_vars
  /\ [](job # Unset => "create_auto_ml_job" \notin InFlightApis)
  /\ [](InLoop => InFlightApis \subseteq {"describe_auto_ml_job"})
  /\ [][(InLoop /\ pc' # pc) => UNCHANGED remoteVars]_vars

\* C9 witness: the job has moved on since the status the client last saw.
C9_Witness ==
  pc = "loop_sleep" /\ job_run_status = "InProgress" /\ job.status = "Stopping"

\* C10: the training rows and the test rows are disjoint and together are all
\* rows; the test rows are the rows that are not training rows; of 5k rows, 4k
\* are training rows and k are test rows; the training file has a header and
\* the target column, the test file has neither.
C10_Partition ==
  /\ train_data # Unset =>
       /\ train_data.rows \cap test_data.rows = {}
       /\ train_data.rows \cup test_data.rows = churn.rows
       /\ test_data.rows = churn.rows \ train_data.rows
       /\ Cardinality(churn.rows) % 5 = 0 =>
            /\ 5 * Cardinality(train_data.rows) = 4 * Cardinality(churn.rows)
            /\ 5 * Cardinality(test_data.rows) = Cardinality(churn.rows)
  /\ files["train_data.csv"] # Unset =>
       /\ files["train_data.csv"].header = TRUE
       /\ "Churn?" \in files["train_data.csv"].columns
       /\ files["train_data.csv"].rows = train_data.rows
  /\ files["test_data.csv"] # Unset =>
       /\ files["test_data.csv"].header = FALSE
       /\ "Churn?" \notin files["test_data.csv"].columns
       /\ files["test_data.csv"].columns = Columns \ {"Churn?"}
       /\ files["test_data.csv"].rows = test_data.rows

\* C10 witness: both files of a five-row dataset have been written.
C10_Witness ==
  pc = "config" /\ Cardinality(churn.rows) = 5
  /\ Cardinality(train_data.rows) = 4 /\ files["test_data.csv"] # Unset

\* C11: the text posted to the endpoint, whichever predictor class the SDK
\* version selected, has exactly one line per test row, the lines are rows (no
\* header line) in the order of the test rows, none has the column 'Churn?',
\* and no line is a row of the training split.
C11_PayloadIsHeldOutRows ==
  \A c \in inflight : c.api = "predict" =>
    /\ predictor.class \in {"RealTimePredictor", "Predictor"}
    /\ Len(c.arg.body) = Cardinality(test_data.rows)
    /\ { c.arg.body[i].row : i \in 1..Len(c.arg.body) } = test_data.rows
    /\ \A i \in 1..Len(c.arg.body) :
         /\ c.arg.body[i].kind = "row"
         /\ c.arg.body[i].row \notin train_data.rows
         /\ "Churn?" \notin c.arg.body[i].columns
         /\ c.arg.body[i].columns = Columns \ {"Churn?"}
         /\ \A j \in 1..(i - 1) : c.arg.body[j].row < c.arg.body[i].row

\* C11 witness: a request with two test rows is in flight on the legacy branch.
C11_Witness ==
  /\ pc = "predict_wait"
  /\ predictor.class = "RealTimePredictor"
  /\ \E c \in inflight : c.api = "predict" /\ Len(c.arg.body) = 2

\* The number of positions at which the answer of the endpoint names the
\* target value of the test row at that position.
C12_Matches ==
  Cardinality({ i \in 1..Len(prediction.lines) :
                  prediction.lines[i][1] = TargetOf(RowOrder(test_data)[i]) })

\* C12: once reported, the accuracy is the number of positions at which the
\* predicted label is the target value of the test row at that position, over
\* the number of test rows, whichever branch computed it; it lies between 0 and
\* 1; the metrics cell computes the same value again.
C12_Accuracy ==
  /\ [](accuracy # Unset =>
          /\ accuracy.num = C12_Matches
          /\ accuracy.den = Cardinality(test_data.rows)
          /\ 0 <= accuracy.num /\ accuracy.num <= accuracy.den
          /\ accuracy.den > 0)
  /\ [][(pc = "metrics" /\ pc' = "cleanup_s3") =>
          (accuracy'.num = accuracy.num /\ accuracy'.den = accuracy.den)]_vars

\* C12 witness: the metrics cell has run on two test rows of which one was
\* predicted right, on the current-SDK branch.
C12_Witness ==
  /\ pc = "cleanup_s3"
  /\ predictor.class = "Predictor"
  /\ accuracy = [num |-> 1, den |-> 2]

\* C13: the model is created under model_name from the inference containers of
\* the best candidate the job reported; every endpoint configuration names a
\* model that exists, every endpoint a configuration that exists, and the
\* waiter and the predictor an endpoint that exists, all of them the ones this
\* run named; the three names differ from one another.
C13_ReferenceChain ==
  /\ \A c \in inflight :
       /\ c.api = "create_model" =>
            /\ c.arg.ModelName = model_name
            /\ job # Unset /\ c.arg.Containers = BestOfJob.InferenceContainers
       /\ c.api = "create_endpoint_config" =>
            /\ c.arg.EndpointConfigName = epc_name
            /\ c.arg.ModelName = model_name
            /\ \E m \in models : m.name = c.arg.ModelName
       /\ c.api = "create_endpoint" =>
            /\ c.arg.EndpointName = ep_name
            /\ c.arg.EndpointConfigName = epc_name
            /\ \E e \in epcs : e.name = c.arg.EndpointConfigName
       /\ c.api \in {"wait", "predict"} =>
            /\ c.arg.EndpointName = ep_name
            /\ \E e \in eps : e.name = c.arg.EndpointName
  /\ \A m \in models :
       m.name = model_name /\ m.containers = BestOfJob.InferenceContainers
  /\ \A e \in epcs : e.name = epc_name /\ e.model = model_name
  /\ \A e \in eps : e.name = ep_name /\ e.config = epc_name
  /\ predictor # Unset => predictor.endpoint = ep_name
  /\ ep_name # Unset =>
       (model_name # epc_name /\ epc_name # ep_name /\ model_name # ep_name)

\* C13 witness: the waiter is waiting for the endpoint of this run.
C13_Witness ==
  /\ pc = "wait_wait"
  /\ \E c \in inflight : c.api = "wait" /\ c.arg.EndpointName = ep_name
  /\ \E e \in eps : e.name = ep_name /\ e.status = "Creating"

\* C14: whichever terminal status ended the loop, the statement after the loop
\* is the one that reads the artifacts, and from there on every statement is
\* followed by the next statement of the notebook (or the run stops on an
\* exception); the job is never submitted again.
C14_NoDependenceOnOutcome ==
  /\ [][(pc = "loop_test" /\ job_run_status \in Terminal /\ pc' # pc) =>
          pc' = "artifacts"]_vars
  /\ [][(PastLoop /\ pc \notin {"fault", "end"} /\ pc' # pc) =>
          (pc' = Statements[Pos(pc) + 1] \/ pc' = "fault")]_vars
  /\ [](PastLoop =>
          (calls["create_auto_ml_job"] = 1
           /\ "create_auto_ml_job" \notin InFlightApis))

\* C14 witness: create-model is requested after a job that failed.
C14_Witness ==
  /\ pc = "create_model_wait"
  /\ job_run_status = "Failed"
  /\ "create_model" \in InFlightApis

\* C15 (as claimed): when the job is submitted, the training file is stored in
\* the bucket and under the key prefix the submission names as its input.
C15_InputIsUploadLocation ==
  \A c \in inflight : c.api = "create_auto_ml_job" =>
    \E o \in s3 :
      /\ o.bucket = split_s3_path(c.arg.InputDataConfig.S3Uri).bucket
      /\ StartsWith(o.key, split_s3_path(c.arg.InputDataConfig.S3Uri).key)
      /\ o.body = files["train_data.csv"]

\* C16: whenever the loop condition is evaluated, job_run_status is the status
\* of describe_response, and describe_response is the answer of the last
\* status query; after the loop describe_response is an answer with a terminal
\* status, it is not assigned again, and the notebook locations are the ones it
\* holds.
C16_ResponseAndStatusAgree ==
  /\ [](pc = "loop_test" =>
          (describe_response # Unset
           /\ job_run_status = describe_response.AutoMLJobStatus))
  /\ [][(pc \in {"poll_init_wait", "loop_query_wait"}
         /\ pc' \in {"loop_test", "loop_sleep"}) =>
          describe_response' = DescribeAnswer]_vars
  /\ [](PastLoop => describe_response.AutoMLJobStatus \in Terminal)
  /\ [][PastLoop => describe_response' = describe_response]_vars
  /\ [](candidate_nbk # <<>> =>
          /\ candidate_nbk = describe_response.CandidateDefinitionNotebookLocation
          /\ data_explore_nbk = describe_response.DataExplorationNotebookLocation)

\* C16 witness: the locations were read after a loop whose body ran and whose
\* last answer said 'Failed'.
C16_Witness ==
  /\ pc = "split_paths"
  /\ bodyRuns >= 1
  /\ describe_response.AutoMLJobStatus = "Failed"
  /\ candidate_nbk # <<>>

\* C17 (as claimed): no statement reads a name that is not bound: the run never
\* stops on a NameError.
C17_DefinedBeforeUse == pc = "fault" => fault.kind # "NameError"

\* The number a sequence of digits denotes.
C18_Decimal(ds) ==
  LET F[i \in 0..Len(ds)] ==
        IF i = 0 THEN 0 ELSE 10 * F[i - 1] + DigitValue(ds[i])
  IN F[Len(ds)]

\* The major version number: the digits before the first '.'.
C18_Major(v) ==
  C18_Decimal(SubSeq(v, 1, (CHOOSE i \in 1..Len(v) :
                              v[i] = "." /\ \A j \in 1..(i - 1) : v[j] # ".") - 1))

\* C18 (as claimed): the legacy predictor is used if and only if the major
\* version number of the SDK is below 2.
C18_BranchByMajor ==
  predictor # Unset =>
    (predictor.class = "RealTimePredictor" <=> C18_Major(sdk_version) < 2)

\* The text old occurs in the text s.
C19_Contains(s, old) ==
  \E i \in 1..Len(s) :
    i + Len(old) - 1 <= Len(s) /\ SubSeq(s, i, i + Len(old) - 1) = old

\* The position of the first '/' after the leading 's3://' of the location.
C19_Slash ==
  CHOOSE i \in (Len(Scheme) + 1)..Len(candidate_nbk) :
    /\ candidate_nbk[i] = "/"
    /\ \A j \in (Len(Scheme) + 1)..(i - 1) : candidate_nbk[j] # "/"

\* The bucket name b and the key k the location was built from.
C19_InputBucket == SubSeq(candidate_nbk, Len(Scheme) + 1, C19_Slash - 1)
C19_InputKey == SubSeq(candidate_nbk, C19_Slash + 1, Len(candidate_nbk))

\* The conditions the claim puts on b and k.
C19_Precondition ==
  /\ C19_InputBucket # <<>>
  /\ \A i \in 1..Len(C19_InputBucket) : C19_InputBucket[i] # "/"
  /\ ~C19_Contains(C19_InputBucket, Scheme)
  /\ ~C19_Contains(C19_InputKey, Scheme)

\* b ends in 's3:'.
C19_EndsInS3Colon ==
  /\ Len(C19_InputBucket) >= 3
  /\ SubSeq(C19_InputBucket, Len(C19_InputBucket) - 2, Len(C19_InputBucket))
       = <<"s", "3", ":">>

\* What the claim says of the result.
C19_Result ==
  /\ s3_bucket = C19_InputBucket
  /\ candidate_nbk_key = C19_InputKey
  /\ Scheme \o s3_bucket \o <<"/">> \o candidate_nbk_key = candidate_nbk
  /\ \A c \in inflight : c.api = "download_data" =>
       /\ c.arg.bucket = C19_InputBucket
       /\ c.arg.key_prefix \in {candidate_nbk_key, data_explore_nbk_key}

\* C19 (as claimed): for a non-empty b without '/' and any k, neither
\* containing 's3://', split_s3_path('s3://' + b + '/' + k) is (b, k), and both
\* downloads use that bucket.
C19_SplitIsInverse ==
  (pc # "split_paths" /\ C19_Precondition) => C19_Result

\* C19 (amended): the same, for b that does not end in 's3:'.
C19_SplitIsInverseOfValidPath ==
  (pc # "split_paths" /\ C19_Precondition /\ ~C19_EndsInS3Colon) => C19_Result

\* C19 witness: the second download is in flight for a three-character bucket
\* with ':' in it and a key that has a '/' in it.
C19_Witness ==
  /\ pc = "download_explore_wait"
  /\ "download_data" \in InFlightApis
  /\ s3_bucket = <<"a", ":", "3">>
  /\ candidate_nbk_key = <<"a", "/">>
====
